---- MODULE Spec2Model ----
(***************************************************************************)
(* Model of shared/run_diff.go: GetResultsDiff and anyPathMatches.         *)
(*                                                                         *)
(* A test identifier (a Go string) is a sequence of one-letter strings, so *)
(* that strings.Index can be computed.  A results entry []int{pass, total} *)
(* is the pair <<pass, total>>; Go's index 0 is index 1 here.  A Go map is *)
(* a function on the set of its keys.  One call of GetResultsDiff is run   *)
(* one loop iteration at a time; `range` over a map visits the keys in an  *)
(* unspecified order, so each iteration picks any key not yet visited.     *)
(***************************************************************************)
EXTENDS Integers, Sequences, FiniteSets, TLC

\* Largest pass/total count of an input entry.
MaxCount == 1

\* The test identifiers of the inputs: "ab" and "b".
Ids == {<<"a", "b">>, <<"b">>}
\* The prefix strings a path scope is made of: "a" and "b".
Prefixes == {<<"a">>, <<"b">>}

VARIABLES before, after, filter, paths, renames,
          diff, pc, todoBefore, todoAfter,
          keysBefore, keysAdded, srcOf, renamedSeen, skippedRenamed

vars == <<before, after, filter, paths, renames,
          diff, pc, todoBefore, todoAfter,
          keysBefore, keysAdded, srcOf, renamedSeen, skippedRenamed>>

inputs == <<before, after, filter, paths, renames>>

----------------------------------------------------------------------------
\* Input domains.

\* []int{pass, total} with 0 <= pass <= total.
TestCounts == {c \in (0..MaxCount) \X (0..MaxCount) : c[1] <= c[2]}

\* map[string][]int
ResultSets == UNION {[S -> TestCounts] : S \in SUBSET Ids}

\* The map with no key.
EmptyMap == [x \in {} |-> x]

\* map[string]string; a nil map is kept apart from an empty one.  An entry
\* renames an identifier to another one, never to itself.
RenameMaps ==
    {[isNil |-> TRUE, map |-> EmptyMap]} \cup
    {[isNil |-> FALSE, map |-> m] :
        m \in {f \in UNION {[S -> Ids] : S \in SUBSET Ids} :
                  \A t \in DOMAIN f : f[t] # t}}

\* mapset.Set of strings; a nil set is kept apart from an empty one.
PathScopes ==
    {[isNil |-> TRUE, set |-> {}]} \cup
    {[isNil |-> FALSE, set |-> s] : s \in SUBSET Prefixes}

\* DiffFilterParam
DiffFilters == [Added : BOOLEAN, Deleted : BOOLEAN, Changed : BOOLEAN, Unchanged : BOOLEAN]

----------------------------------------------------------------------------
\* Helpers.

\* strings.Index(s, substr): the index (from 0) of the first occurrence of
\* substr in s, or -1.
StringsIndex(s, substr) ==
    LET hits == {i \in 0..(Len(s) - Len(substr)) :
                    SubSeq(s, i + 1, i + Len(substr)) = substr}
    IN IF hits = {} THEN -1 ELSE CHOOSE i \in hits : \A j \in hits : i <= j

\* Fault: the scope string found anywhere in the path (strings.Contains).
PathMatchContains(testPath, path) == StringsIndex(testPath, path) >= 0

\* strings.Index(testPath, path.(string)) == 0
PathMatch(testPath, path) == StringsIndex(testPath, path) = 0

\* anyPathMatches
AnyPathMatches(ps, testPath) ==
    IF ps.isNil THEN TRUE
    ELSE \E path \in ps.set : PathMatch(testPath, path)

\* if renames != nil { rename, ok := renames[test]; if ok { test = rename } }
Rename(rn, test) ==
    IF ~rn.isNil /\ test \in DOMAIN rn.map THEN rn.map[test] ELSE test

\* Fault: the Added pass without its skip of rename targets.
IsRenameTargetNever(rn, test) == FALSE

\* renames != nil and some value of renames equals test
IsRenameTarget(rn, test) ==
    ~rn.isNil /\ \E from \in DOMAIN rn.map : rn.map[from] = test

\* Fault: the gate without filter.Changed.
BeforeGateDeletedOnly(f) == f.Deleted

\* Fault: the gate opened by filter.Unchanged too.
BeforeGateWithUnchanged(f) == f.Deleted \/ f.Changed \/ f.Unchanged

\* if filter.Deleted || filter.Changed
BeforeGate(f) == f.Deleted \/ f.Changed

\* Fault: the total of a deleted test with the wrong sign.
DeletedEntryPositive(resultsBefore) == <<0, 0, resultsBefore[2]>>

\* []int{0, 0, -resultsBefore[1]}
DeletedEntry(resultsBefore) == <<0, 0, -resultsBefore[2]>>

\* delta := resultsBefore[0] - resultsAfter[0]
\* changed := delta != 0 || resultsBefore[1] != resultsAfter[1]
IsChanged(resultsBefore, resultsAfter) ==
    LET delta == resultsBefore[1] - resultsAfter[1]
    IN delta # 0 \/ resultsBefore[2] # resultsAfter[2]

\* Fault: the category test without its unchanged half.
CategorySkippedChangedOnly(f, changed) == changed /\ ~f.Changed

\* (!changed && !filter.Unchanged) || changed && !filter.Changed
CategorySkipped(f, changed) ==
    (~changed /\ ~f.Unchanged) \/ (changed /\ ~f.Changed)

\* Fault: improved and regressed without the `d > 0` tests.
ChangedEntryUnclamped(resultsBefore, resultsAfter) ==
    <<resultsAfter[1] - resultsBefore[1],
      (resultsAfter[2] - resultsAfter[1]) - (resultsBefore[2] - resultsBefore[1]),
      resultsAfter[2] - resultsBefore[2]>>

\* []int{improved, regressed, resultsAfter[1] - resultsBefore[1]}
ChangedEntry(resultsBefore, resultsAfter) ==
    LET d1 == resultsAfter[1] - resultsBefore[1]
        improved == IF d1 > 0 THEN d1 ELSE 0
        failingBefore == resultsBefore[2] - resultsBefore[1]
        failingAfter == resultsAfter[2] - resultsAfter[1]
        d2 == failingAfter - failingBefore
        regressed == IF d2 > 0 THEN d2 ELSE 0
    IN <<improved, regressed, resultsAfter[2] - resultsBefore[2]>>

\* Fault: passing and failing counts of an added test swapped.
AddedEntrySwapped(resultsAfter) ==
    <<resultsAfter[2] - resultsAfter[1], resultsAfter[1], resultsAfter[2]>>

\* []int{resultsAfter[0], resultsAfter[1] - resultsAfter[0], resultsAfter[1]}
AddedEntry(resultsAfter) ==
    <<resultsAfter[1], resultsAfter[2] - resultsAfter[1], resultsAfter[2]>>

\* Fault: `break` in place of `continue`.
Break(todo, test) == {}

\* `continue`, and the end of a loop body: on to the keys not yet visited.
Continue(todo, test) == todo \ {test}

\* diff[key] = entry
Put(d, key, entry) == (key :> entry) @@ d

----------------------------------------------------------------------------
\* The body of the loop over `before`, for the key `test`: the statement it
\* ends in ("skip" for a `continue`, "put" for an assignment to diff).
BeforeBody(test) ==
    LET resultsBefore == before[test]
        key == Rename(renames, test)
    IN IF ~AnyPathMatches(paths, key)
       THEN [op |-> "skip", why |-> "path", key |-> key]
       ELSE IF key \notin DOMAIN after
       THEN IF ~filter.Deleted
            THEN [op |-> "skip", why |-> "filter", key |-> key]
            ELSE [op |-> "put", why |-> "deleted", key |-> key,
                  entry |-> DeletedEntry(resultsBefore)]
       ELSE IF ~filter.Changed /\ ~filter.Unchanged
            THEN [op |-> "skip", why |-> "filter", key |-> key]
            ELSE IF CategorySkipped(filter, IsChanged(resultsBefore, after[key]))
            THEN [op |-> "skip", why |-> "filter", key |-> key]
            ELSE [op |-> "put", why |-> "both", key |-> key,
                  entry |-> ChangedEntry(resultsBefore, after[key])]

\* The body of the loop over `after`, for the key `test`.
AddedBody(test) ==
    IF IsRenameTarget(renames, test)
    THEN [op |-> "skip", why |-> "renamed", key |-> test]
    ELSE IF ~AnyPathMatches(paths, test)
    THEN [op |-> "skip", why |-> "path", key |-> test]
    ELSE IF test \notin DOMAIN before
    THEN [op |-> "put", why |-> "added", key |-> test,
          entry |-> AddedEntry(after[test])]
    ELSE [op |-> "skip", why |-> "present", key |-> test]

----------------------------------------------------------------------------
Init ==
    /\ before \in ResultSets
    /\ after \in ResultSets
    /\ filter \in DiffFilters
    /\ paths \in PathScopes
    /\ renames \in RenameMaps
    /\ diff = EmptyMap
    /\ pc = "before"
    /\ todoBefore = DOMAIN before
    /\ todoAfter = DOMAIN after
    /\ keysBefore = {}
    /\ keysAdded = {}
    /\ srcOf = EmptyMap
    /\ renamedSeen = {}
    /\ skippedRenamed = {}

\* One iteration of `for test, resultsBefore := range before`; the last one
\* leaves the loop.
BeforeIter ==
    /\ pc = "before"
    /\ BeforeGate(filter)
    /\ \E test \in todoBefore :
        LET r == BeforeBody(test)
        IN /\ IF r.op = "put"
              THEN /\ diff' = Put(diff, r.key, r.entry)
                   /\ keysBefore' = keysBefore \cup {r.key}
                   /\ srcOf' = Put(srcOf, r.key, test)
              ELSE UNCHANGED <<diff, keysBefore, srcOf>>
           /\ todoBefore' = Continue(todoBefore, test)
           /\ pc' = IF todoBefore' = {} THEN "added" ELSE "before"
           /\ renamedSeen' = IF r.key # test THEN renamedSeen \cup {r.key}
                             ELSE renamedSeen
    /\ UNCHANGED <<inputs, todoAfter, keysAdded, skippedRenamed>>

\* `before` is empty, or the gate of its loop is closed.
BeforeDone ==
    /\ pc = "before"
    /\ ~BeforeGate(filter) \/ todoBefore = {}
    /\ pc' = "added"
    /\ UNCHANGED <<inputs, diff, todoBefore, todoAfter,
                   keysBefore, keysAdded, srcOf, renamedSeen, skippedRenamed>>

\* One iteration of `for test, resultsAfter := range after`; the last one
\* returns diff.
AddedIter ==
    /\ pc = "added"
    /\ filter.Added
    /\ \E test \in todoAfter :
        LET r == AddedBody(test)
        IN /\ IF r.op = "put"
              THEN /\ diff' = Put(diff, r.key, r.entry)
                   /\ keysAdded' = keysAdded \cup {r.key}
              ELSE UNCHANGED <<diff, keysAdded>>
           /\ todoAfter' = Continue(todoAfter, test)
           /\ pc' = IF todoAfter' = {} THEN "done" ELSE "added"
           /\ skippedRenamed' = IF r.why = "renamed" THEN skippedRenamed \cup {test}
                                ELSE skippedRenamed
    /\ UNCHANGED <<inputs, todoBefore, keysBefore, srcOf, renamedSeen>>

\* `after` is empty, or filter.Added is unset: return diff.
AddedDone ==
    /\ pc = "added"
    /\ ~filter.Added \/ todoAfter = {}
    /\ pc' = "done"
    /\ UNCHANGED <<inputs, diff, todoBefore, todoAfter,
                   keysBefore, keysAdded, srcOf, renamedSeen, skippedRenamed>>

Next == BeforeIter \/ BeforeDone \/ AddedIter \/ AddedDone

Spec == Init /\ [][Next]_vars

----------------------------------------------------------------------------
\* Vocabulary of the properties, written apart from the operators above.

Done == pc = "done"

\* p is a literal prefix of s.
IsPrefixOf(p, s) == Len(p) <= Len(s) /\ \A i \in 1..Len(p) : p[i] = s[i]

\* k lies in the path scope (an absent scope admits everything).
InScope(k) == paths.isNil \/ \E p \in paths.set : IsPrefixOf(p, k)

\* The post-rename identifier of t: the rename target when t has a rename
\* entry, otherwise t itself.
Target(t) == IF t \in DOMAIN renames.map THEN renames.map[t] ELSE t

\* k is the value of some entry of the rename map.
IsTarget(k) == \E from \in DOMAIN renames.map : renames.map[from] = k

\* The entries of `before` whose post-rename identifier is k.
Sources(k) == {t \in DOMAIN before : Target(t) = k}

Max0(x) == IF x > 0 THEN x ELSE 0

Only(flags) == \A f \in {"Added", "Deleted", "Changed", "Unchanged"} :
                  filter[f] <=> f \in flags

\* The diff of a test counted in both sets.
BothEntry(cb, ca) ==
    <<Max0(ca[1] - cb[1]),
      Max0((ca[2] - ca[1]) - (cb[2] - cb[1])),
      ca[2] - cb[2]>>

----------------------------------------------------------------------------
\* C1: with a non-absent path scope, every key of the result (at any point of
\* the call, so also of the returned map) has a scope string as a literal
\* prefix, for every input, rename map and filter.
C1_KeysInScope ==
    ~paths.isNil => \A k \in DOMAIN diff : \E p \in paths.set : IsPrefixOf(p, k)

\* A finished call with a scope that admits the renamed key it emitted and
\* shuts out another identifier of the inputs.
C1_Witness ==
    /\ Done
    /\ ~paths.isNil
    /\ \E t \in DOMAIN before : Target(t) # t /\ Target(t) \in DOMAIN diff
    /\ \E u \in DOMAIN before \cup DOMAIN after : ~InScope(u) /\ u \notin DOMAIN diff

\* C2: with only Deleted set, the keys of the result are exactly the
\* post-rename `before` identifiers that lie in the scope and have no entry in
\* `after`; each entry is [0, 0, -T] with T the total of a `before` identifier
\* mapped to that key, and no identifier of `after` is a key.
C2_DeletedOnly ==
    (Done /\ Only({"Deleted"})) =>
        /\ DOMAIN diff = {k \in Ids : Sources(k) # {} /\ InScope(k) /\ k \notin DOMAIN after}
        /\ \A k \in DOMAIN diff : \E t \in Sources(k) : diff[k] = <<0, 0, -before[t][2]>>
        /\ DOMAIN diff \cap DOMAIN after = {}

\* A Deleted-only call that reported a renamed test with a non-zero total as
\* deleted and left out a test still present in `after`.
C2_Witness ==
    /\ Done /\ Only({"Deleted"})
    /\ \E t \in DOMAIN before :
          Target(t) # t /\ Target(t) \in DOMAIN diff /\ diff[Target(t)][3] < 0
    /\ \E u \in DOMAIN before : Target(u) \in DOMAIN after

\* C3: with only Added set, the result holds exactly the `after` identifiers
\* that lie in the scope, have no entry in `before` and are the target of no
\* rename entry, each as [pass, total - pass, total] of its after counts.
C3_AddedOnly ==
    (Done /\ Only({"Added"})) =>
        /\ DOMAIN diff = {k \in DOMAIN after :
                            InScope(k) /\ k \notin DOMAIN before /\ ~IsTarget(k)}
        /\ \A k \in DOMAIN diff :
              diff[k] = <<after[k][1], after[k][2] - after[k][1], after[k][2]>>

\* An Added-only call that emitted a failing new test and left out a new
\* identifier because it is a rename target.
C3_Witness ==
    /\ Done /\ Only({"Added"})
    /\ \E k \in DOMAIN diff : diff[k][1] # diff[k][2]
    /\ \E u \in DOMAIN after : u \notin DOMAIN before /\ IsTarget(u) /\ u \notin DOMAIN diff

\* C4 as stated: with only Changed set, an identifier with identical counts
\* in `before` and `after` is absent from the result, for any rename map and
\* path scope (here: any rename map in which no identifier is the target of
\* two entries).
C4_Original ==
    (/\ Done /\ Only({"Changed"})
     /\ \A s, t \in DOMAIN renames.map : s # t => renames.map[s] # renames.map[t]) =>
        \A t \in DOMAIN before \cap DOMAIN after :
            before[t] = after[t] => t \notin DOMAIN diff

\* C4 amended: ... provided no other `before` identifier is renamed to it.
C4_UnchangedAbsent ==
    (Done /\ Only({"Changed"})) =>
        \A t \in DOMAIN before \cap DOMAIN after :
            (before[t] = after[t] /\ Sources(t) \subseteq {t}) => t \notin DOMAIN diff

\* A Changed-only call, with a rename map and a scope, that emitted a changed
\* test and left out one with identical counts.
C4_Witness ==
    /\ Done /\ Only({"Changed"})
    /\ ~paths.isNil /\ DOMAIN renames.map # {}
    /\ diff # EmptyMap
    /\ \E t \in DOMAIN before \cap DOMAIN after :
          before[t] = after[t] /\ InScope(t) /\ Sources(t) \subseteq {t} /\ t \notin DOMAIN diff

\* C5 as stated: the diff of a result set against itself is empty with only
\* Changed set, and has [0, 0, 0] for every identifier of the set with exactly
\* Unchanged and Changed set (here: of a call with no path scope).
C5_Original ==
    (Done /\ before = after /\ paths.isNil) =>
        /\ Only({"Changed"}) => diff = EmptyMap
        /\ Only({"Unchanged", "Changed"}) =>
              \A t \in DOMAIN before : t \in DOMAIN diff /\ diff[t] = <<0, 0, 0>>

\* C5 amended: ... when no identifier of the set is renamed to another
\* identifier; with exactly Unchanged and Changed set the result is [0, 0, 0]
\* for every identifier of the set that lies in the path scope, and nothing
\* else.
C5_SelfDiff ==
    (Done /\ before = after /\ \A t \in DOMAIN before : Target(t) = t) =>
        /\ Only({"Changed"}) => diff = EmptyMap
        /\ Only({"Unchanged", "Changed"}) =>
              /\ DOMAIN diff = {t \in DOMAIN before : InScope(t)}
              /\ \A t \in DOMAIN diff : diff[t] = <<0, 0, 0>>

\* A self-diff of two tests with non-zero totals under Unchanged and Changed
\* that emitted one of them and left the other out of scope.
C5_Witness ==
    /\ Done /\ before = after /\ Only({"Unchanged", "Changed"})
    /\ \A t \in DOMAIN before : Target(t) = t
    /\ \E t \in DOMAIN before : before[t][2] > 0 /\ t \in DOMAIN diff
    /\ \E u \in DOMAIN before : u \notin DOMAIN diff

\* C6 as stated: with Unchanged set and Changed and Deleted unset, no test that
\* exists in both sets is emitted (the pass over `before` does not run),
\* whatever Added; with Unchanged set together with Deleted or Changed, a test
\* with identical counts in both sets is emitted as [0, 0, 0] (here: of a call
\* with no rename map).
C6_Original ==
    (Done /\ renames.isNil) =>
        /\ (filter.Unchanged /\ ~filter.Changed /\ ~filter.Deleted) =>
              /\ keysBefore = {}
              /\ \A t \in DOMAIN before :
                    Target(t) \in DOMAIN after => Target(t) \notin DOMAIN diff
              /\ DOMAIN diff \cap (DOMAIN before \cap DOMAIN after) = {}
        /\ (filter.Unchanged /\ (filter.Deleted \/ filter.Changed)) =>
              \A t \in DOMAIN before :
                  (Target(t) \in DOMAIN after /\ before[t] = after[Target(t)]) =>
                      Target(t) \in DOMAIN diff /\ diff[Target(t)] = <<0, 0, 0>>

\* C6 amended: the second half holds of a test whose post-rename identifier
\* lies in the path scope and is the post-rename identifier of no other entry
\* of `before`.
C6_UnchangedGate ==
    Done =>
        /\ (filter.Unchanged /\ ~filter.Changed /\ ~filter.Deleted) =>
              /\ keysBefore = {}
              /\ \A t \in DOMAIN before :
                    Target(t) \in DOMAIN after => Target(t) \notin DOMAIN diff
              /\ DOMAIN diff \cap (DOMAIN before \cap DOMAIN after) = {}
        /\ (filter.Unchanged /\ (filter.Deleted \/ filter.Changed)) =>
              \A t \in DOMAIN before :
                  (/\ Target(t) \in DOMAIN after
                   /\ before[t] = after[Target(t)]
                   /\ InScope(Target(t))
                   /\ Sources(Target(t)) = {t}) =>
                      Target(t) \in DOMAIN diff /\ diff[Target(t)] = <<0, 0, 0>>

\* An Unchanged+Added call that emitted a new test and nothing for a test of
\* both sets with identical counts.
C6_WitnessSkipped ==
    /\ Done /\ Only({"Unchanged", "Added"})
    /\ diff # EmptyMap
    /\ \E t \in DOMAIN before :
          /\ Target(t) \in DOMAIN after /\ before[t] = after[Target(t)]
          /\ InScope(Target(t)) /\ Target(t) \notin DOMAIN diff

\* An Unchanged+Deleted call that emitted a renamed test with identical,
\* non-zero counts as [0, 0, 0].
C6_WitnessEmitted ==
    /\ Done /\ Only({"Unchanged", "Deleted"})
    /\ \E t \in DOMAIN before :
          /\ Target(t) # t /\ Target(t) \in DOMAIN after
          /\ before[t] = after[Target(t)] /\ before[t][2] > 0
          /\ Target(t) \in DOMAIN diff /\ diff[Target(t)] = <<0, 0, 0>>

\* C7 as stated: an `after` identifier the Added pass skips as a rename target
\* was handled by the pass over `before` of the same call: that pass ran and
\* visited a `before` identifier renamed to it.
C7_SkippedWasHandled ==
    skippedRenamed # {} =>
        BeforeGate(filter) /\ skippedRenamed \subseteq renamedSeen

----------------------------------------------------------------------------
\* The call run with both loops visiting the keys in one fixed order.
RECURSIVE RunBefore(_, _)
RunBefore(d, todo) ==
    IF todo = {} THEN d
    ELSE LET test == CHOOSE t \in todo : TRUE
             r == BeforeBody(test)
         IN RunBefore(IF r.op = "put" THEN Put(d, r.key, r.entry) ELSE d,
                      Continue(todo, test))

RECURSIVE RunAdded(_, _)
RunAdded(d, todo) ==
    IF todo = {} THEN d
    ELSE LET test == CHOOSE t \in todo : TRUE
             r == AddedBody(test)
         IN RunAdded(IF r.op = "put" THEN Put(d, r.key, r.entry) ELSE d,
                     Continue(todo, test))

FixedOrderDiff ==
    LET d1 == IF BeforeGate(filter) THEN RunBefore(EmptyMap, DOMAIN before) ELSE EmptyMap
    IN IF filter.Added THEN RunAdded(d1, DOMAIN after) ELSE d1

\* C8 as stated: when no two `before` identifiers rename to the same target,
\* every order of visiting the entries returns the same result (the one the
\* fixed order returns).
C8_Original ==
    (/\ Done
     /\ \A s, t \in DOMAIN before \cap DOMAIN renames.map :
           s # t => renames.map[s] # renames.map[t]) =>
        diff = FixedOrderDiff

\* C8 amended: when no two `before` identifiers have the same post-rename
\* identifier (a renamed one and an un-renamed one included), every order of
\* visiting the entries returns the same result.
C8_OrderIrrelevant ==
    (Done /\ \A s, t \in DOMAIN before : s # t => Target(s) # Target(t)) =>
        diff = FixedOrderDiff

\* A call over two `before` and two `after` entries, one renamed, that emitted
\* two entries.
C8_Witness ==
    /\ Done
    /\ \A s, t \in DOMAIN before : s # t => Target(s) # Target(t)
    /\ DOMAIN before = Ids /\ DOMAIN after = Ids
    /\ \E t \in DOMAIN before : Target(t) # t
    /\ DOMAIN diff = Ids

\* C9: every entry of the result has improved >= 0 and regressed >= 0 (all
\* input counts satisfy 0 <= pass <= total); the entry of a test present in
\* both sets (the `before` entry that wrote it and the `after` entry of its
\* post-rename identifier) is [max(0, passAfter - passBefore),
\* max(0, failingAfter - failingBefore), totalAfter - totalBefore].
C9_NonNegative ==
    (/\ \A t \in DOMAIN before : 0 <= before[t][1] /\ before[t][1] <= before[t][2]
     /\ \A t \in DOMAIN after : 0 <= after[t][1] /\ after[t][1] <= after[t][2]) =>
        /\ \A k \in DOMAIN diff : diff[k][1] >= 0 /\ diff[k][2] >= 0
        /\ \A k \in DOMAIN srcOf :
              k \in DOMAIN after => diff[k] = BothEntry(before[srcOf[k]], after[k])

\* A call that emitted a regressed test of both sets, whose pass count fell.
C9_Witness ==
    /\ Done
    /\ \E k \in DOMAIN srcOf :
          /\ k \in DOMAIN after
          /\ after[k][1] < before[srcOf[k]][1]
          /\ diff[k][1] = 0 /\ diff[k][2] > 0

\* C10: the keys written by the pass over `before` and the keys written by the
\* Added pass are disjoint; the former are post-rename `before` identifiers,
\* and every key of the result was written by exactly one of the passes.
C10_PassesDisjoint ==
    /\ keysBefore \cap keysAdded = {}
    /\ keysBefore \subseteq {Target(t) : t \in DOMAIN before}
    /\ DOMAIN diff = keysBefore \cup keysAdded

\* A call whose Added pass skipped, as a rename target, a key the pass over
\* `before` had written.
C10_Witness ==
    /\ Done
    /\ filter.Added
    /\ keysBefore \cap skippedRenamed # {}

====
